---- MODULE Spec2Model ----
(***************************************************************************)
(* Model of updates_gen.py: the dialogue generation and deduplication     *)
(* pipeline (main), the retrying synthesizer (generate_dialogue), the     *)
(* fingerprint store loader (load_existing_hashes), the turn parser       *)
(* (process_generated_dialogue) and the formatter                         *)
(* (generate_base_conversation).                                          *)
(*                                                                         *)
(* A text is a sequence of one-character strings, so that strip, split,   *)
(* lower, startswith and the validation regex are computed character by   *)
(* character as Python computes them.                                      *)
(***************************************************************************)
EXTENDS Integers, Sequences, FiniteSets, TLC

(***************************************************************************)
(* Bounds of the model.                                                    *)
(***************************************************************************)
MaxFragments == 4
MaxStartRecords == 1
MaxRetriesBound == 4
MaxTextLen == 3
MaxSpans == 2

(***************************************************************************)
(* Text primitives (Python str methods).                                   *)
(***************************************************************************)
NL == "\n"

Whitespace == {" ", "\t", "\n", "\r"}

LowerChar(c) ==
  CASE c = "U" -> "u" [] c = "S" -> "s" [] c = "E" -> "e" [] c = "R" -> "r"
    [] c = "A" -> "a" [] c = "I" -> "i" [] c = "T" -> "t" [] c = "N" -> "n"
    [] c = "G" -> "g" [] c = "Y" -> "y" [] c = "M" -> "m" [] c = "X" -> "x"
    [] OTHER -> c

Lower(s) == [i \in 1..Len(s) |-> LowerChar(s[i])]

RECURSIVE LStrip(_)
LStrip(s) ==
  IF s # <<>> /\ Head(s) \in Whitespace THEN LStrip(Tail(s)) ELSE s

RECURSIVE RStrip(_)
RStrip(s) ==
  IF s # <<>> /\ s[Len(s)] \in Whitespace
  THEN RStrip(SubSeq(s, 1, Len(s) - 1)) ELSE s

Strip(s) == RStrip(LStrip(s))

StartsWith(s, p) == Len(s) >= Len(p) /\ SubSeq(s, 1, Len(p)) = p

\* s.split(sep): the maximal pieces between occurrences of the character sep.
RECURSIVE SplitAcc(_, _, _)
SplitAcc(s, sep, cur) ==
  IF s = <<>> THEN <<cur>>
  ELSE IF Head(s) = sep THEN <<cur>> \o SplitAcc(Tail(s), sep, <<>>)
  ELSE SplitAcc(Tail(s), sep, Append(cur, Head(s)))

Split(s, sep) == SplitAcc(s, sep, <<>>)

\* s.split(':', 1)[1] for a string that contains a colon.
RECURSIVE AfterFirstColon(_)
AfterFirstColon(s) ==
  IF s = <<>> THEN <<>>
  ELSE IF Head(s) = ":" THEN Tail(s)
  ELSE AfterFirstColon(Tail(s))

RECURSIVE Concat(_)
Concat(ss) == IF ss = <<>> THEN <<>> ELSE Head(ss) \o Concat(Tail(ss))

(***************************************************************************)
(* Literals of the source.                                                 *)
(***************************************************************************)
USER == <<"U", "S", "E", "R">>
ASSISTANT == <<"A", "S", "S", "I", "S", "T", "A", "N", "T">>
UNKNOWN == <<"U", "N", "K", "N", "O", "W", "N">>

user_prefix == <<"u", "s", "e", "r", ":">>
assistant_prefix == <<"a", "s", "s", "i", "s", "t", "a", "n", "t", ":">>
system_prefix == <<"s", "y", "s", "t", "e", "m", ":">>
agent_prefix == <<"a", "g", "e", "n", "t", ":">>

UserMarker == <<"U", "s", "e", "r", ":">>
AssistantMarker == <<"A", "s", "s", "i", "s", "t", "a", "n", "t", ":">>

(***************************************************************************)
(* process_generated_dialogue: the turn parser.                            *)
(***************************************************************************)
ParseLineCaseSensitive(raw) ==
  LET line == Strip(raw) IN
  IF line = <<>> THEN <<>>
  ELSE IF StartsWith(line, user_prefix)
       THEN <<[speaker |-> USER, utterance |-> Strip(AfterFirstColon(line))]>>
  ELSE IF \/ StartsWith(line, assistant_prefix)
          \/ StartsWith(line, system_prefix)
          \/ StartsWith(line, agent_prefix)
       THEN <<[speaker |-> ASSISTANT, utterance |-> Strip(AfterFirstColon(line))]>>
  ELSE <<>>

\* The body of the loop for one line: the turns it appends (none or one).
ParseLine(raw) ==
  LET line == Strip(raw) IN
  IF line = <<>> THEN <<>>
  ELSE IF StartsWith(Lower(line), user_prefix)
       THEN <<[speaker |-> USER, utterance |-> Strip(AfterFirstColon(line))]>>
  ELSE IF \/ StartsWith(Lower(line), assistant_prefix)
          \/ StartsWith(Lower(line), system_prefix)
          \/ StartsWith(Lower(line), agent_prefix)
       THEN <<[speaker |-> ASSISTANT, utterance |-> Strip(AfterFirstColon(line))]>>
  ELSE <<>>

RECURSIVE ParseLines(_, _)
ParseLines(lines, generated_turns) ==
  IF lines = <<>> THEN generated_turns
  ELSE ParseLines(Tail(lines), generated_turns \o ParseLine(Head(lines)))

process_generated_dialogue(generated_dialogue) ==
  ParseLines(Split(generated_dialogue, NL), <<>>)

(***************************************************************************)
(* generate_base_conversation: the formatter.                              *)
(***************************************************************************)
\* The turns joined by a space instead of a line break.
RECURSIVE FormatTurnsOnOneLine(_, _)
FormatTurnsOnOneLine(turns, conversation) ==
  IF turns = <<>> THEN conversation
  ELSE FormatTurnsOnOneLine(Tail(turns),
         conversation \o Head(turns).speaker \o <<":", " ">>
                      \o Head(turns).utterance \o <<" ">>)

\* Lines 106-109: conversation += f"{speaker}: {utterance}\n" for each turn.
RECURSIVE FormatTurns(_, _)
FormatTurns(turns, conversation) ==
  IF turns = <<>> THEN conversation
  ELSE FormatTurns(Tail(turns),
         conversation \o Head(turns).speaker \o <<":", " ">>
                      \o Head(turns).utterance \o <<NL>>)

generate_base_conversation(turns) == Strip(FormatTurns(turns, <<>>))

\* hashlib.sha256(text.encode('utf-8')).hexdigest(): a collision-free digest,
\* a value of a sort of its own that only equality can inspect.
Sha256(text) == <<"sha256", text>>

(***************************************************************************)
(* Values.  An optional value is a sequence of length 0 (None) or 1.       *)
(***************************************************************************)
None == <<>>

Some(v) == <<v>>

Absent == [state |-> "absent"]

Invalid == [state |-> "invalid"]

JsonFile(content) == [state |-> "json", content |-> content]

(***************************************************************************)
(* The generative capability: texts it may return as message.content.      *)
(***************************************************************************)
RawUserA == <<"U", "s", "e", "r", ":", " ", "a">>
RawUserAPadded == <<" ", "U", "s", "e", "r", ":", "a", " ", NL>>
RawNarrationThenAssistant ==
  <<"x", NL>> \o AssistantMarker \o <<" ", "b">>
RawLowerUser == <<"u", "s", "e", "r", ":", " ", "a">>
RawMarkerInsideLine == <<"x", " ">> \o UserMarker \o <<"a">>

CandidateTexts ==
  {RawUserA, RawUserAPadded, RawNarrationThenAssistant, RawLowerUser,
   RawMarkerInsideLine}

\* n=3: the number of completions requested per call.
NumCompletions == 3

\* The candidate pool is kept small in the lists the service returns: the
\* first two choices range over all texts, the last repeats one of two.
CandidateLists ==
  {cs \in [1..NumCompletions -> CandidateTexts] :
     cs[NumCompletions] \in {RawUserA, RawLowerUser}}

(***************************************************************************)
(* generate_dialogue: validation of one candidate.                         *)
(***************************************************************************)
\* re.search(r'^(User:|Assistant:)', text, re.MULTILINE): a marker at the
\* start of the text or right after a newline.
\* The search without the anchor: a marker anywhere in the text.
HasSpeakerMarkerAnywhere(text) ==
  \E p \in 1..Len(text) :
     \/ StartsWith(SubSeq(text, p, Len(text)), UserMarker)
     \/ StartsWith(SubSeq(text, p, Len(text)), AssistantMarker)

HasSpeakerMarker(text) ==
  \E p \in 1..Len(text) :
     /\ p = 1 \/ text[p - 1] = NL
     /\ \/ StartsWith(SubSeq(text, p, Len(text)), UserMarker)
        \/ StartsWith(SubSeq(text, p, Len(text)), AssistantMarker)

\* The scan of lines 175-178: the first valid candidate, or None.
RECURSIVE LastValid(_)
LastValid(cands) ==
  IF cands = <<>> THEN None
  ELSE IF HasSpeakerMarker(cands[Len(cands)]) THEN Some(cands[Len(cands)])
  ELSE LastValid(SubSeq(cands, 1, Len(cands) - 1))

RECURSIVE FirstValid(_)
FirstValid(cands) ==
  IF cands = <<>> THEN None
  ELSE IF HasSpeakerMarker(Head(cands)) THEN Some(Head(cands))
  ELSE FirstValid(Tail(cands))

StripAll(contents) == [i \in 1..Len(contents) |-> Strip(contents[i])]

\* 2 ** (attempt - 1)
RECURSIVE Pow2FromZero(_)
Pow2FromZero(n) == IF n <= 1 THEN 1 ELSE 2 * Pow2FromZero(n - 1)

\* 2 ** attempt
RECURSIVE Pow2(_)
Pow2(n) == IF n = 0 THEN 1 ELSE 2 * Pow2(n - 1)

(***************************************************************************)
(* anonymize_text and extract_and_anonymize_dialogue.                      *)
(***************************************************************************)
ReplacementLabels ==
  {"GPE", "LOC", "TIME", "DATE", "CARDINAL", "ORDINAL", "MONEY", "PERSON", "ORG"}

replacements(label) ==
  CASE label \in {"GPE", "LOC"} -> <<"L", "O", "C", "A", "T", "I", "O", "N">>
    [] label = "TIME" -> <<"T", "I", "M", "E">>
    [] label = "DATE" -> <<"D", "A", "T", "E">>
    [] label \in {"CARDINAL", "ORDINAL"} -> <<"N", "U", "M", "B", "E", "R">>
    [] label = "MONEY" -> <<"A", "M", "O", "U", "N", "T">>
    [] label = "PERSON" -> <<"P", "E", "R", "S", "O", "N">>
    [] label = "ORG" ->
         <<"O", "R", "G", "A", "N", "I", "Z", "A", "T", "I", "O", "N">>

\* text[:n] and text[n:] with Python's clamping of the bound.
SliceTo(text, n) == SubSeq(text, 1, IF n > Len(text) THEN Len(text) ELSE n)

SliceFrom(text, n) == SubSeq(text, n + 1, Len(text))

\* The spans in ascending order of start offset.
RECURSIVE SortByStartAsc(_)
SortByStartAsc(ents) ==
  IF ents = <<>> THEN <<>>
  ELSE LET m == CHOOSE i \in 1..Len(ents) :
                  \A j \in 1..Len(ents) : ents[i].start_char <= ents[j].start_char
       IN <<ents[m]>> \o SortByStartAsc(SubSeq(ents, 1, m - 1)
                                         \o SubSeq(ents, m + 1, Len(ents)))

\* sorted(doc.ents, key=start_char, reverse=True): a stable sort.
RECURSIVE SortByStartDesc(_)
SortByStartDesc(ents) ==
  IF ents = <<>> THEN <<>>
  ELSE LET m == CHOOSE i \in 1..Len(ents) :
                  /\ \A j \in 1..Len(ents) : ents[j].start_char <= ents[i].start_char
                  /\ \A j \in 1..(i - 1) : ents[j].start_char < ents[i].start_char
       IN <<ents[m]>> \o SortByStartDesc(SubSeq(ents, 1, m - 1)
                                          \o SubSeq(ents, m + 1, Len(ents)))

RECURSIVE ReplaceEntities(_, _)
ReplaceEntities(anonymized_text, entities) ==
  IF entities = <<>> THEN anonymized_text
  ELSE LET ent == Head(entities) IN
       IF ent.label_ \in ReplacementLabels
       THEN ReplaceEntities(
              SliceTo(anonymized_text, ent.start_char)
                \o <<"<">> \o replacements(ent.label_) \o <<">">>
                \o SliceFrom(anonymized_text, ent.end_char),
              Tail(entities))
       ELSE ReplaceEntities(anonymized_text, Tail(entities))

\* ents: the spans doc.ents of nlp(text), offsets 0-based, end exclusive.
anonymize_text(text, ents) == ReplaceEntities(text, SortByStartDesc(ents))

(***************************************************************************)
(* The source corpus (data_split) and the entity recogniser on its texts.  *)
(***************************************************************************)
UttToRome == <<"t", "o", " ", "R", "o", "m", "e">>
UttOk == <<"o", "k">>
UttHi == <<"h", "i">>

\* nlp(text).ents for the utterances of the corpus.
Nlp(text) ==
  IF text = UttToRome
  THEN <<[start_char |-> 3, end_char |-> 7, label_ |-> "GPE"]>>
  ELSE <<>>

Corpus ==
  << [dialogue_id |-> Some(<<"d0">>), services |-> <<"train">>,
      turn_id |-> <<0, 1>>, speaker |-> <<0, 1>>,
      utterance |-> <<UttToRome, UttOk>>],
     [dialogue_id |-> None, services |-> <<>>,
      turn_id |-> <<0>>, speaker |-> <<2>>,
      utterance |-> <<UttHi>>] >>

CorpusSize == Len(Corpus)

\* data_split[index], index 0-based.
Example(index) == Corpus[index + 1]

Min3(a, b, c) ==
  IF a <= b /\ a <= c THEN a ELSE IF b <= c THEN b ELSE c

extract_and_anonymize_dialogue(dialogue_json) ==
  LET n == Min3(Len(dialogue_json.turn_id), Len(dialogue_json.speaker),
                Len(dialogue_json.utterance))
  IN [k \in 1..n |->
        [turn_id |-> dialogue_json.turn_id[k],
         speaker |-> IF dialogue_json.speaker[k] = 0 THEN USER
                     ELSE IF dialogue_json.speaker[k] = 1 THEN ASSISTANT
                     ELSE UNKNOWN,
         utterance |-> anonymize_text(dialogue_json.utterance[k],
                                      Nlp(dialogue_json.utterance[k]))]]

\* Lines 280-284: the canonical transcript of a source dialogue.
SourceConversation(index) ==
  generate_base_conversation(extract_and_anonymize_dialogue(Example(index)))

\* example.get('dialogue_id', f"dialogue_{index}")
SourceId(index) ==
  IF Example(index).dialogue_id = None
  THEN <<"dialogue_", ToString(index)>>
  ELSE Example(index).dialogue_id[1]

\* f"{dialogue_id}_generated_{index}"
NewDialogueId(index) == SourceId(index) \o <<"_generated_", ToString(index)>>

(***************************************************************************)
(* Startup contents of the two artifacts.                                  *)
(***************************************************************************)
CanonUserA ==
  generate_base_conversation(process_generated_dialogue(Strip(RawUserA)))

CanonAssistantB ==
  generate_base_conversation(
    process_generated_dialogue(Strip(RawNarrationThenAssistant)))

RecOld ==
  [services |-> <<"train">>, dialogue_id |-> <<"old">>,
   turns |-> process_generated_dialogue(CanonUserA),
   base_conversation |-> CanonUserA]

RecClash ==
  [services |-> <<"train">>, dialogue_id |-> NewDialogueId(0),
   turns |-> process_generated_dialogue(CanonAssistantB),
   base_conversation |-> CanonAssistantB]

\* A record without the key 'dialogue_id'.
RecNoId ==
  [services |-> <<"train">>,
   turns |-> process_generated_dialogue(CanonUserA),
   base_conversation |-> CanonUserA]

StartRecords == {RecOld, RecClash, RecNoId}

SeqsUpTo(S, n) == UNION {[1..k -> S] : k \in 0..n}

StartOutputFiles ==
  {Absent, Invalid} \cup {JsonFile(rs) : rs \in SeqsUpTo(StartRecords, MaxStartRecords)}

StartHashes == {Sha256(CanonUserA), Sha256(SourceConversation(0))}

StartHashFiles ==
  {Absent, Invalid} \cup {JsonFile(hs) : hs \in SUBSET StartHashes}

(***************************************************************************)
(* load_existing_hashes, and the loading of the primary output in main.    *)
(***************************************************************************)
\* dialogue.get('base_conversation', '')
BaseConversationOf(dialogue) ==
  IF "base_conversation" \in DOMAIN dialogue
  THEN dialogue.base_conversation ELSE <<>>

HashesOf(dialogues) ==
  {Sha256(BaseConversationOf(dialogues[k])) : k \in 1..Len(dialogues)}

\* Lines 128-139: the recomputed set is written to the cache and returned;
\* an exception raised by the write is caught by the same handler.
FallbackResult(hashes, write_ok, old_hash_file) ==
  IF write_ok
  THEN [hashes |-> hashes, hash_file |-> JsonFile(hashes)]
  ELSE [hashes |-> {}, hash_file |-> old_hash_file]

\* The cache is opened but its contents are not taken into the set.
load_existing_hashes_cache_unread(out_file, cache_file, write_ok) ==
  IF cache_file.state # "absent"
  THEN [hashes |-> {}, hash_file |-> cache_file]
  ELSE IF out_file.state = "json"
  THEN FallbackResult(HashesOf(out_file.content), write_ok, cache_file)
  ELSE [hashes |-> {}, hash_file |-> cache_file]

\* The value returned and the cache file it leaves.
load_existing_hashes(out_file, cache_file, write_ok) ==
  IF cache_file.state # "absent"
  THEN IF cache_file.state = "json"
       THEN [hashes |-> cache_file.content, hash_file |-> cache_file]
       ELSE [hashes |-> {}, hash_file |-> cache_file]
  ELSE IF out_file.state # "absent"
  THEN IF out_file.state = "json"
       THEN FallbackResult(HashesOf(out_file.content), write_ok, cache_file)
       ELSE [hashes |-> {}, hash_file |-> cache_file]
  ELSE [hashes |-> {}, hash_file |-> cache_file]

\* Lines 248-260: existing_dialogues and existing_ids.
LoadExistingDialogues(out_file) ==
  IF /\ out_file.state = "json"
     /\ \A k \in 1..Len(out_file.content) :
           "dialogue_id" \in DOMAIN out_file.content[k]
  THEN [existing_dialogues |-> out_file.content,
        existing_ids |-> {out_file.content[k].dialogue_id :
                            k \in 1..Len(out_file.content)}]
  ELSE [existing_dialogues |-> <<>>, existing_ids |-> {}]

\* random.sample(range(n), k): the sequences of k distinct indices.
Samples(n, k) ==
  {sq \in [1..k -> 0..(n - 1)] : \A i, j \in 1..k : i # j => sq[i] # sq[j]}

ExceedsDatasetOffByOne(n) == n >= CorpusSize

\* Line 268.
ExceedsDataset(n) == n > CorpusSize

\* max_retries=3 in the signature of generate_dialogue.
DefaultMaxRetries == 3

(***************************************************************************)
(* State.                                                                  *)
(***************************************************************************)
VARIABLES
  pc,                  \* position of the control
  output_file,         \* the primary output artifact
  hash_file,           \* dialogue_hashes.json
  start_output_file,   \* the two artifacts as they were at startup
  start_hash_file,
  num_generations,
  dataset_loaded,
  existing_dialogues,
  existing_ids,
  existing_hashes,
  new_dialogues,
  selected_indices,
  pos,                 \* position of the loop in selected_indices
  outcomes,            \* the terminal state reached by each processed item
  writes,              \* the writes attempted by the final persistence step
  max_retries,
  attempt,
  api_calls,           \* calls of client.chat.completions.create in this call
  generated_dialogues, \* the stripped candidates of the last attempt
  generated_dialogue,  \* the value returned by generate_dialogue
  sleeps,              \* the backoff sleeps of this call, in seconds
  attempt_outcome,     \* how the last attempt of this call ended
  text_in,             \* arguments and results of the functions run alone
  turns_out,
  reparsed,
  ents_in,
  text_out,
  loaded_hashes,       \* the value load_existing_hashes returned to this run
  second_run,          \* whether this run follows an earlier one
  prev_run             \* what the earlier run loaded, accepted and wrote

mainVars ==
  <<output_file, hash_file, start_output_file, start_hash_file,
    num_generations, dataset_loaded, existing_dialogues, existing_ids,
    existing_hashes, new_dialogues, selected_indices, pos, outcomes, writes>>

genVars ==
  <<max_retries, attempt, api_calls, generated_dialogues, generated_dialogue,
    sleeps, attempt_outcome>>

pureVars == <<text_in, turns_out, reparsed, ents_in, text_out>>

histVars == <<loaded_hashes, second_run, prev_run>>

vars == <<pc, mainVars, genVars, pureVars, histVars>>

MainIdle ==
  /\ num_generations = 0
  /\ dataset_loaded = FALSE
  /\ existing_dialogues = <<>>
  /\ existing_ids = {}
  /\ existing_hashes = {}
  /\ new_dialogues = <<>>
  /\ selected_indices = <<>>
  /\ pos = 1
  /\ outcomes = <<>>
  /\ writes = <<>>

GenIdle ==
  /\ attempt = 0
  /\ api_calls = 0
  /\ generated_dialogues = <<>>
  /\ generated_dialogue = None
  /\ sleeps = <<>>
  /\ attempt_outcome = "none"

PureIdle ==
  /\ text_in = <<>>
  /\ turns_out = <<>>
  /\ reparsed = <<>>
  /\ ents_in = <<>>
  /\ text_out = <<>>

HistIdle ==
  /\ loaded_hashes = {}
  /\ second_run = FALSE
  /\ prev_run = None

\* The pipeline: a run of main from any startup content of the artifacts.
Init ==
  /\ pc = "start"
  /\ output_file \in StartOutputFiles
  /\ hash_file \in StartHashFiles
  /\ start_output_file = output_file
  /\ start_hash_file = hash_file
  /\ MainIdle
  /\ max_retries = DefaultMaxRetries
  /\ GenIdle
  /\ PureIdle
  /\ HistIdle

(***************************************************************************)
(* main, lines 228-272: startup, up to the selection of the sample.        *)
(***************************************************************************)
MainStart ==
  /\ pc = "start"
  /\ \E n \in 0..(CorpusSize + 1), loaded \in BOOLEAN, write_ok \in BOOLEAN :
       /\ num_generations' = n
       /\ dataset_loaded' = loaded
       /\ IF ~loaded
          THEN \* load_dataset raised: return at line 245
               /\ pc' = "exited"
               /\ UNCHANGED <<hash_file, existing_dialogues, existing_ids,
                              existing_hashes, selected_indices,
                              loaded_hashes>>
          ELSE LET ex == LoadExistingDialogues(output_file)
                   ld == load_existing_hashes(output_file, hash_file, write_ok)
               IN /\ existing_dialogues' = ex.existing_dialogues
                  /\ existing_ids' = ex.existing_ids
                  /\ existing_hashes' = ld.hashes
                  /\ loaded_hashes' = ld.hashes
                  /\ hash_file' = ld.hash_file
                  /\ IF ExceedsDataset(n)
                     THEN /\ pc' = "exited"
                          /\ UNCHANGED selected_indices
                     ELSE /\ pc' = "loop"
                          /\ selected_indices' \in Samples(CorpusSize, n)
  /\ UNCHANGED <<output_file, start_output_file, start_hash_file,
                 new_dialogues, pos, outcomes, writes>>
  /\ UNCHANGED <<genVars, pureVars, second_run, prev_run>>

(***************************************************************************)
(* main, lines 274-296: one item, up to the call of generate_dialogue.     *)
(***************************************************************************)
NeverDuplicateSource(dialogue_hash, hashes) == FALSE

\* Line 285.
IsDuplicateSource(dialogue_hash, hashes) == dialogue_hash \in hashes

ItemBegin ==
  /\ pc = "loop"
  /\ pos <= Len(selected_indices)
  /\ LET index == selected_indices[pos]
         dialogue_hash == Sha256(SourceConversation(index))
     IN IF IsDuplicateSource(dialogue_hash, existing_hashes)
        THEN /\ outcomes' = Append(outcomes,
                  [index |-> index, state |-> "skipped-duplicate-source"])
             /\ pos' = pos + 1
             /\ pc' = "loop"
             /\ UNCHANGED max_retries
        ELSE /\ pc' = "gen_call"
             /\ max_retries' = DefaultMaxRetries
             /\ UNCHANGED <<outcomes, pos>>
  /\ UNCHANGED <<output_file, hash_file, start_output_file, start_hash_file,
                 num_generations, dataset_loaded, existing_dialogues,
                 existing_ids, existing_hashes, new_dialogues,
                 selected_indices, writes>>
  /\ UNCHANGED <<attempt, api_calls, generated_dialogues, generated_dialogue,
                 sleeps, attempt_outcome>>
  /\ UNCHANGED <<pureVars, histVars>>

(***************************************************************************)
(* generate_dialogue.                                                      *)
(***************************************************************************)
AttemptInRangeOneMore(a, retries) == a \in 1..(retries + 1)

\* for attempt in range(1, max_retries + 1)
AttemptInRange(a, retries) == a \in 1..retries

\* Lines 146-158: entry, up to the first test of the loop.  An empty range
\* falls through to the end of the function, which returns None.
GenEnter ==
  /\ pc = "gen_call"
  /\ attempt' = 1
  /\ api_calls' = 0
  /\ sleeps' = <<>>
  /\ generated_dialogues' = <<>>
  /\ generated_dialogue' = None
  /\ attempt_outcome' = "none"
  /\ pc' = IF AttemptInRange(1, max_retries) THEN "gen_attempt" ELSE "gen_return"
  /\ UNCHANGED <<max_retries, mainVars, pureVars, histVars>>

\* Lines 180-185 and 187-192: the end of an attempt without a valid candidate.
FailedAttempt ==
  IF attempt < max_retries
  THEN /\ sleeps' = Append(sleeps, Pow2(attempt))
       /\ attempt' = attempt + 1
       /\ generated_dialogue' = None
       /\ pc' = IF AttemptInRange(attempt + 1, max_retries)
                THEN "gen_attempt" ELSE "gen_return"
  ELSE /\ generated_dialogue' = None
       /\ pc' = "gen_return"
       /\ UNCHANGED <<sleeps, attempt>>

\* The service answers with choices: lines 173-185.
GenChoices ==
  /\ pc = "gen_attempt"
  /\ api_calls' = api_calls + 1
  /\ \E contents \in CandidateLists :
       /\ generated_dialogues' = StripAll(contents)
       /\ LET found == FirstValid(StripAll(contents))
          IN IF found # None
             THEN /\ generated_dialogue' = found
                  /\ attempt_outcome' = "valid_candidate"
                  /\ pc' = "gen_return"
                  /\ UNCHANGED <<sleeps, attempt>>
             ELSE /\ attempt_outcome' = "no_valid_candidate"
                  /\ FailedAttempt
  /\ UNCHANGED <<max_retries, mainVars, pureVars, histVars>>

\* An OpenAIError that ends the call as an unexpected exception does.
GenOpenAIErrorNotRetried ==
  /\ pc = "gen_attempt"
  /\ api_calls' = api_calls + 1
  /\ generated_dialogues' = <<>>
  /\ attempt_outcome' = "openai_error"
  /\ generated_dialogue' = None
  /\ pc' = "gen_return"
  /\ UNCHANGED <<sleeps, attempt>>
  /\ UNCHANGED <<max_retries, mainVars, pureVars, histVars>>

\* The call raises OpenAIError: lines 186-192.
GenOpenAIError ==
  /\ pc = "gen_attempt"
  /\ api_calls' = api_calls + 1
  /\ generated_dialogues' = <<>>
  /\ attempt_outcome' = "openai_error"
  /\ FailedAttempt
  /\ UNCHANGED <<max_retries, mainVars, pureVars, histVars>>

\* Any other exception of the attempt (a choice whose content is None, a
\* client error that is not an OpenAIError): lines 193-195.
GenOtherException ==
  /\ pc = "gen_attempt"
  /\ api_calls' = api_calls + 1
  /\ generated_dialogues' = <<>>
  /\ generated_dialogue' = None
  /\ attempt_outcome' = "other_exception"
  /\ pc' = "gen_return"
  /\ UNCHANGED <<sleeps, attempt>>
  /\ UNCHANGED <<max_retries, mainVars, pureVars, histVars>>

GenStep == GenEnter \/ GenChoices \/ GenOpenAIError \/ GenOtherException

(***************************************************************************)
(* main, lines 298-319: the item after generate_dialogue has returned.     *)
(***************************************************************************)
NeverDuplicateGenerated(generated_hash, hashes) == FALSE

\* Line 303.
IsDuplicateGenerated(generated_hash, hashes) == generated_hash \in hashes

NeverDuplicateId(new_dialogue_id, ids) == FALSE

\* Line 308.
IsDuplicateId(new_dialogue_id, ids) == new_dialogue_id \in ids

NotAddedTo(set, x) == set

\* Lines 318-319: set.add.
AddedTo(set, x) == set \cup {x}

\* if generated_dialogue: neither None nor the empty string.
Truthy(opt) == opt # None /\ opt[1] # <<>>

\* Without the test of line 298, a failed generation reaches the parser,
\* which raises on None.
ItemOutcomeWithoutFailureTest(opt, generated_hash, new_dialogue_id, hashes, ids) ==
  IF ~Truthy(opt) THEN "raised"
  ELSE IF generated_hash \in hashes THEN "skipped-duplicate-generated"
  ELSE IF new_dialogue_id \in ids THEN "skipped-duplicate-id"
  ELSE "accepted"

\* The branch of lines 298-319 that the item takes.
ItemOutcome(opt, generated_hash, new_dialogue_id, hashes, ids) ==
  IF ~Truthy(opt) THEN "skipped-generation-failed"
  ELSE IF IsDuplicateGenerated(generated_hash, hashes)
       THEN "skipped-duplicate-generated"
  ELSE IF IsDuplicateId(new_dialogue_id, ids) THEN "skipped-duplicate-id"
  ELSE "accepted"

\* The control of lines 298-320: whatever the branch, the loop goes on with
\* the next sampled index.
ItemFinishControl ==
  /\ pc = "gen_return"
  /\ pos' = pos + 1
  /\ pc' = "loop"

ItemFinish ==
  /\ ItemFinishControl
  /\ LET index == selected_indices[pos]
         text == IF Truthy(generated_dialogue) THEN generated_dialogue[1] ELSE <<>>
         generated_turns == process_generated_dialogue(text)
         generated_conversation == generate_base_conversation(generated_turns)
         generated_hash == Sha256(generated_conversation)
         new_dialogue_id == NewDialogueId(index)
         state == ItemOutcome(generated_dialogue, generated_hash,
                              new_dialogue_id, existing_hashes, existing_ids)
     IN /\ outcomes' = Append(outcomes, [index |-> index, state |-> state])
        /\ IF state = "accepted"
           THEN /\ new_dialogues' = Append(new_dialogues,
                     [services |-> Example(index).services,
                      dialogue_id |-> new_dialogue_id,
                      turns |-> generated_turns,
                      base_conversation |-> generated_conversation])
                /\ existing_ids' = AddedTo(existing_ids, new_dialogue_id)
                /\ existing_hashes' = AddedTo(existing_hashes, generated_hash)
           ELSE UNCHANGED <<new_dialogues, existing_ids, existing_hashes>>
  /\ generated_dialogues' = <<>>
  /\ generated_dialogue' = None
  /\ attempt_outcome' = "none"
  /\ UNCHANGED <<output_file, hash_file, start_output_file, start_hash_file,
                 num_generations, dataset_loaded, existing_dialogues,
                 selected_indices, writes>>
  /\ UNCHANGED <<max_retries, attempt, api_calls, sleeps>>
  /\ UNCHANGED <<pureVars, histVars>>

(***************************************************************************)
(* main, lines 321-340: the final persistence step.                        *)
(***************************************************************************)
\* One try block around both writes: a failed output write skips the cache.
PersistSingleTry ==
  /\ pc = "loop"
  /\ pos > Len(selected_indices)
  /\ \E out_ok \in BOOLEAN, hash_ok \in BOOLEAN :
       /\ output_file' = IF out_ok
                         THEN JsonFile(existing_dialogues \o new_dialogues)
                         ELSE output_file
       /\ hash_file' = IF out_ok /\ hash_ok
                       THEN JsonFile(existing_hashes)
                       ELSE hash_file
       /\ writes' = IF out_ok
                    THEN <<[file |-> "output", ok |-> out_ok],
                           [file |-> "hashes", ok |-> hash_ok]>>
                    ELSE <<[file |-> "output", ok |-> out_ok]>>
  /\ pc' = "done"
  /\ UNCHANGED <<start_output_file, start_hash_file, num_generations,
                 dataset_loaded, existing_dialogues, existing_ids,
                 existing_hashes, new_dialogues, selected_indices, pos,
                 outcomes>>
  /\ UNCHANGED <<genVars, pureVars, histVars>>

Persist ==
  /\ pc = "loop"
  /\ pos > Len(selected_indices)
  /\ \E out_ok \in BOOLEAN, hash_ok \in BOOLEAN :
       /\ output_file' = IF out_ok
                         THEN JsonFile(existing_dialogues \o new_dialogues)
                         ELSE output_file
       /\ hash_file' = IF hash_ok THEN JsonFile(existing_hashes) ELSE hash_file
       /\ writes' = <<[file |-> "output", ok |-> out_ok],
                      [file |-> "hashes", ok |-> hash_ok]>>
  /\ pc' = "done"
  /\ UNCHANGED <<start_output_file, start_hash_file, num_generations,
                 dataset_loaded, existing_dialogues, existing_ids,
                 existing_hashes, new_dialogues, selected_indices, pos,
                 outcomes>>
  /\ UNCHANGED <<genVars, pureVars, histVars>>

Next == MainStart \/ ItemBegin \/ GenStep \/ ItemFinish \/ Persist

Spec == Init /\ [][Next]_vars

\* The run is sequential and never suspended for ever: a step that can be
\* taken is taken.  ItemFinish is enabled exactly when its control part is,
\* its other conjuncts being assignments.
FairSpec ==
  /\ Spec
  /\ WF_vars(MainStart)
  /\ WF_vars(ItemBegin)
  /\ WF_vars(GenStep)
  /\ WF_<<pc, pos>>(ItemFinishControl)
  /\ WF_vars(Persist)

(***************************************************************************)
(* Two consecutive runs of main.  The second run starts from the artifacts *)
(* the first one wrote, both of its final writes having succeeded; what    *)
(* the first run loaded and accepted is kept in prev_run.                  *)
(***************************************************************************)
Restart ==
  /\ pc = "done"
  /\ ~second_run
  /\ \A k \in 1..Len(writes) : writes[k].ok
  /\ prev_run' = Some([loaded |-> loaded_hashes,
                       accepted |-> new_dialogues,
                       final_hashes |-> existing_hashes])
  /\ second_run' = TRUE
  /\ loaded_hashes' = {}
  /\ start_output_file' = output_file
  /\ start_hash_file' = hash_file
  /\ pc' = "start"
  /\ num_generations' = 0
  /\ dataset_loaded' = FALSE
  /\ existing_dialogues' = <<>>
  /\ existing_ids' = {}
  /\ existing_hashes' = {}
  /\ new_dialogues' = <<>>
  /\ selected_indices' = <<>>
  /\ pos' = 1
  /\ outcomes' = <<>>
  /\ writes' = <<>>
  /\ max_retries' = DefaultMaxRetries
  /\ attempt' = 0
  /\ api_calls' = 0
  /\ generated_dialogues' = <<>>
  /\ generated_dialogue' = None
  /\ sleeps' = <<>>
  /\ attempt_outcome' = "none"
  /\ UNCHANGED <<output_file, hash_file, pureVars>>

NextTwoRuns == Next \/ Restart

SpecTwoRuns == Init /\ [][NextTwoRuns]_vars

(***************************************************************************)
(* generate_dialogue on its own, for every attempt budget.                 *)
(***************************************************************************)
InitGen ==
  /\ pc = "gen_call"
  /\ output_file = Absent
  /\ hash_file = Absent
  /\ start_output_file = Absent
  /\ start_hash_file = Absent
  /\ MainIdle
  /\ max_retries \in 0..MaxRetriesBound
  /\ GenIdle
  /\ PureIdle
  /\ HistIdle

NextGen == GenStep

SpecGen == InitGen /\ [][NextGen]_vars

(***************************************************************************)
(* process_generated_dialogue on its own, for every text made of at most   *)
(* MaxFragments fragments.                                                 *)
(***************************************************************************)
Fragments ==
  { UserMarker, <<"u", "S", "e", "R">>, AssistantMarker,
    <<"A", "G", "E", "N", "T", ":">>, <<"s", "y", "s", "t", "e", "m", ":">>,
    <<" ">>, <<NL>>, <<"a">>, <<":">> }

InputTexts == {Concat(fs) : fs \in SeqsUpTo(Fragments, MaxFragments)}

InitParse ==
  /\ pc = "parse_call"
  /\ output_file = Absent
  /\ hash_file = Absent
  /\ start_output_file = Absent
  /\ start_hash_file = Absent
  /\ MainIdle
  /\ max_retries = DefaultMaxRetries
  /\ GenIdle
  /\ text_in \in InputTexts
  /\ turns_out = <<>>
  /\ reparsed = <<>>
  /\ ents_in = <<>>
  /\ text_out = <<>>
  /\ HistIdle

ParseStep ==
  /\ pc = "parse_call"
  /\ turns_out' = process_generated_dialogue(text_in)
  /\ pc' = "parse_done"
  /\ UNCHANGED <<text_in, reparsed, ents_in, text_out>>
  /\ UNCHANGED <<mainVars, genVars, histVars>>

\* main, lines 299-300 and 316: the turns are formatted into the stored
\* transcript; the transcript is then parsed again.
RoundTripStep ==
  /\ pc = "parse_done"
  /\ reparsed' =
       process_generated_dialogue(generate_base_conversation(turns_out))
  /\ pc' = "roundtrip_done"
  /\ UNCHANGED <<text_in, turns_out, ents_in, text_out>>
  /\ UNCHANGED <<mainVars, genVars, histVars>>

NextParse == ParseStep \/ RoundTripStep

SpecParse == InitParse /\ [][NextParse]_vars

(***************************************************************************)
(* Properties.                                                             *)
(***************************************************************************)
TerminalStates ==
  {"accepted", "skipped-duplicate-source", "skipped-duplicate-generated",
   "skipped-duplicate-id", "skipped-generation-failed"}

HasOutcome(state) == \E k \in 1..Len(outcomes) : outcomes[k].state = state

\* The fingerprint main computes from the text generate_dialogue returned.
ReturnedFingerprint ==
  Sha256(generate_base_conversation(
           process_generated_dialogue(generated_dialogue[1])))

\* C1: in the per-item loop, an item whose parsed-and-reformatted generated
\* transcript has a fingerprint already in existing_hashes is skipped:
\* new_dialogues, existing_ids and existing_hashes are unchanged by it, and
\* the loop moves on to the next item.
C1_DuplicateGeneratedSkipped ==
  [][(/\ pc = "gen_return"
      /\ generated_dialogue # None
      /\ ReturnedFingerprint \in existing_hashes)
     => /\ new_dialogues' = new_dialogues
        /\ existing_ids' = existing_ids
        /\ existing_hashes' = existing_hashes
        /\ outcomes' = Append(outcomes,
             [index |-> selected_indices[pos],
              state |-> "skipped-duplicate-generated"])
        /\ pc' = "loop"]_vars

C1_Witness == HasOutcome("skipped-duplicate-generated")

StartBaseConversations ==
  IF start_output_file.state = "json"
  THEN {BaseConversationOf(start_output_file.content[k]) :
          k \in 1..Len(start_output_file.content)}
  ELSE {}

\* C2: for every startup state of the two artifacts, a record accepted in
\* the run never has a base_conversation equal to that of a record that
\* was in the primary output at startup, nor to that of a record accepted
\* earlier in the same run.
C2_NoDuplicateOfPreviousDialogues ==
  \A k \in 1..Len(new_dialogues) :
     /\ new_dialogues[k].base_conversation \notin StartBaseConversations
     /\ \A j \in 1..(k - 1) :
           new_dialogues[j].base_conversation # new_dialogues[k].base_conversation

\* A candidate list contains a text with a line that starts with a marker.
LineStartsWithMarker(line) ==
  StartsWith(line, UserMarker) \/ StartsWith(line, AssistantMarker)

ContainsMarkerLine(text) ==
  \E k \in 1..Len(Split(text, NL)) : LineStartsWithMarker(Split(text, NL)[k])

\* C3: generate_dialogue calls the generative capability at most
\* max_retries times, whatever the outcomes of the calls, and it always
\* returns; when the attempt it ends on yields no valid candidate (or
\* raises), the value returned is None.
C3_RetryBound ==
  /\ api_calls <= max_retries
  /\ pc \in {"gen_call", "gen_attempt", "gen_return"}
  /\ pc = "gen_attempt" => attempt = api_calls + 1 /\ attempt <= max_retries
  /\ (/\ pc = "gen_return"
      /\ \A k \in 1..Len(generated_dialogues) :
            ~ContainsMarkerLine(generated_dialogues[k]))
     => generated_dialogue = None

C3_Witness ==
  /\ pc = "gen_return"
  /\ max_retries >= 2
  /\ api_calls = max_retries
  /\ generated_dialogue = None
  /\ Len(sleeps) = max_retries - 1

\* C4: when the run exits on a failed precondition (corpus not loaded, or
\* more samples requested than the corpus holds), the primary output and the
\* fingerprint cache are what they were at startup.
C4_ExitModifiesNoArtifact ==
  pc = "exited" =>
     /\ output_file = start_output_file
     /\ hash_file = start_hash_file

IndicesProcessed == {outcomes[k].index : k \in 1..Len(outcomes)}

\* C5: a run with num_generations equal to the corpus size passes the
\* precondition and, once the loop is over, has processed every corpus index
\* exactly once; a run with num_generations greater than the corpus size
\* exits with no call of the generative capability and no item processed.
C5_SampleSizeBoundary ==
  (pc # "start" /\ dataset_loaded) =>
     /\ num_generations > CorpusSize =>
          /\ pc = "exited"
          /\ api_calls = 0 /\ attempt = 0
          /\ outcomes = <<>>
     /\ num_generations = CorpusSize =>
          /\ pc # "exited"
          /\ Len(selected_indices) = CorpusSize
          /\ pc = "done" =>
               /\ Len(outcomes) = CorpusSize
               /\ IndicesProcessed = 0..(CorpusSize - 1)

C5_Witness ==
  /\ pc = "done"
  /\ num_generations = CorpusSize
  /\ Len(outcomes) = CorpusSize
  /\ HasOutcome("accepted")

\* C6: generate_dialogue returns, of the candidates of an attempt, the first
\* one that contains a line starting with a speaker marker, and returns None
\* when the attempt it ends on has none; every text it returns parses to at
\* least one turn.
C6_FirstValidCandidate ==
  pc = "gen_return" =>
     IF generated_dialogue # None
     THEN /\ \E k \in 1..Len(generated_dialogues) :
                /\ generated_dialogues[k] = generated_dialogue[1]
                /\ ContainsMarkerLine(generated_dialogues[k])
                /\ \A j \in 1..(k - 1) : ~ContainsMarkerLine(generated_dialogues[j])
          /\ Len(process_generated_dialogue(generated_dialogue[1])) >= 1
     ELSE \A k \in 1..Len(generated_dialogues) :
             ~ContainsMarkerLine(generated_dialogues[k])

C6_Witness ==
  /\ pc = "gen_return"
  /\ generated_dialogue # None
  /\ attempt >= 2
  /\ ~ContainsMarkerLine(generated_dialogues[1])
  /\ generated_dialogue[1] = generated_dialogues[2]
  /\ generated_dialogues[3] # generated_dialogues[2]
  /\ ContainsMarkerLine(generated_dialogues[3])

\* Every sampled index has exactly one outcome, one of the five terminal
\* states, and nothing else was recorded.
OutcomesComplete ==
  /\ Len(outcomes) = Len(selected_indices)
  /\ \A p \in 1..Len(selected_indices) :
        /\ Cardinality({k \in 1..Len(outcomes) :
                          outcomes[k].index = selected_indices[p]}) = 1
        /\ outcomes[p].state \in TerminalStates

\* C7: a run that passes both preconditions eventually reaches the final
\* persistence step, with every sampled item in exactly one of the five
\* terminal states; no outcome of an item stops the loop.
C7_RunReachesPersistence ==
  (pc = "loop") ~> (pc = "done" /\ OutcomesComplete)

C7_Witness ==
  /\ pc = "done"
  /\ Len(outcomes) = 2
  /\ outcomes[1].state = "skipped-generation-failed"
  /\ outcomes[2].state = "accepted"

DistinctIds(dialogues) ==
  /\ \A k \in 1..Len(dialogues) : "dialogue_id" \in DOMAIN dialogues[k]
  /\ \A j, k \in 1..Len(dialogues) :
        j # k => dialogues[j].dialogue_id # dialogues[k].dialogue_id

StartIdsDistinct ==
  start_output_file.state = "json" /\ DistinctIds(start_output_file.content)

\* C8: when the records of the primary output have pairwise distinct
\* dialogue_id at startup, the records of existing_dialogues + new_dialogues
\* have pairwise distinct dialogue_id after every step; an item whose derived
\* identifier is already in existing_ids is skipped without appending a
\* record or changing existing_hashes.
C8_IdentifiersUnique ==
  [][/\ StartIdsDistinct => DistinctIds(existing_dialogues' \o new_dialogues')
     /\ (/\ pc = "gen_return"
         /\ generated_dialogue # None
         /\ ReturnedFingerprint \notin existing_hashes
         /\ NewDialogueId(selected_indices[pos]) \in existing_ids)
        => /\ new_dialogues' = new_dialogues
           /\ existing_hashes' = existing_hashes
           /\ existing_ids' = existing_ids]_vars

C8_Witness ==
  /\ StartIdsDistinct
  /\ HasOutcome("skipped-duplicate-id")
  /\ HasOutcome("accepted")

(***************************************************************************)
(* The turn parser, stated without a loop: the lines of a text are the     *)
(* pieces between its newline positions, and the output is the image of    *)
(* the kept lines in increasing line number.                               *)
(***************************************************************************)
\* The k-th smallest element of a finite set of integers.
KthSmallest(S, k) == CHOOSE x \in S : Cardinality({y \in S : y <= x}) = k

NewlinePositions(text) == {i \in 1..Len(text) : text[i] = NL}

NumLines(text) == Cardinality(NewlinePositions(text)) + 1

LineAt(text, k) ==
  LET first == IF k = 1 THEN 1
               ELSE KthSmallest(NewlinePositions(text), k - 1) + 1
      last == IF k = NumLines(text) THEN Len(text)
              ELSE KthSmallest(NewlinePositions(text), k) - 1
  IN SubSeq(text, first, last)

Trimmed(s) ==
  LET ink == {i \in 1..Len(s) : s[i] \notin Whitespace}
  IN IF ink = {} THEN <<>>
     ELSE SubSeq(s, KthSmallest(ink, 1), KthSmallest(ink, Cardinality(ink)))

HasPrefixIgnoringCase(s, prefix) ==
  /\ Len(s) >= Len(prefix)
  /\ \A i \in 1..Len(prefix) : LowerChar(s[i]) = prefix[i]

IsUserLine(line) == HasPrefixIgnoringCase(line, user_prefix)

IsAssistantLine(line) ==
  \E prefix \in {assistant_prefix, system_prefix, agent_prefix} :
     HasPrefixIgnoringCase(line, prefix)

RemainderAfterFirstColon(line) ==
  LET colons == {i \in 1..Len(line) : line[i] = ":"}
  IN SubSeq(line, KthSmallest(colons, 1) + 1, Len(line))

KeptLines(text) ==
  {k \in 1..NumLines(text) :
     LET line == Trimmed(LineAt(text, k))
     IN IsUserLine(line) \/ IsAssistantLine(line)}

ExpectedTurn(text, k) ==
  LET line == Trimmed(LineAt(text, k))
  IN [speaker |-> IF IsUserLine(line) THEN USER ELSE ASSISTANT,
      utterance |-> Trimmed(RemainderAfterFirstColon(line))]

\* C9: process_generated_dialogue returns one turn per line that, trimmed,
\* has a case-insensitive 'user:' prefix (a USER turn) or a case-insensitive
\* 'assistant:', 'system:' or 'agent:' prefix (an ASSISTANT turn), with the
\* trimmed remainder after the first colon as utterance, in the order of the
\* lines; blank lines and all other lines give no turn.
C9_ParserOutput ==
  pc = "parse_done" =>
     /\ Len(turns_out) = Cardinality(KeptLines(text_in))
     /\ \A n \in 1..Len(turns_out) :
           turns_out[n] = ExpectedTurn(text_in, KthSmallest(KeptLines(text_in), n))

C9_Witness ==
  /\ pc = "parse_done"
  /\ NumLines(text_in) = 2
  /\ Len(turns_out) = 2
  /\ turns_out[1].speaker = ASSISTANT
  /\ turns_out[1].utterance = <<"a">>
  /\ turns_out[2].speaker = USER
  /\ text_in # Lower(text_in)

\* C10: load_existing_hashes returns the content of the fingerprint cache
\* when the cache exists and is readable; the fingerprints of the
\* base_conversation fields of the primary output when the cache is absent
\* and the primary output is readable, and it then writes that set to the
\* cache; the empty set when the file it reads cannot be read or parsed.
C10_LoadExistingHashes ==
  (dataset_loaded /\ pc \in {"loop", "exited"} /\ pos = 1) =>
     /\ start_hash_file.state = "json" =>
          existing_hashes = start_hash_file.content
     /\ start_hash_file.state = "invalid" => existing_hashes = {}
     /\ (start_hash_file.state = "absent" /\ start_output_file.state = "json") =>
          /\ existing_hashes = HashesOf(start_output_file.content)
          /\ hash_file = JsonFile(HashesOf(start_output_file.content))
     /\ (start_hash_file.state = "absent" /\ start_output_file.state = "invalid") =>
          existing_hashes = {}

(***************************************************************************)
(* anonymize_text on its own, for every text of at most MaxTextLen         *)
(* characters and every list of at most MaxSpans non-overlapping spans.    *)
(***************************************************************************)
AnonChars == {"a", "b"}

\* Labels of the recogniser: two of the replacement table, one outside it.
AnonLabels == {"GPE", "MONEY", "NORP"}

AnonTexts == UNION {[1..n -> AnonChars] : n \in 0..MaxTextLen}

SpansOf(text) ==
  {[start_char |-> b, end_char |-> e, label_ |-> l] :
     b \in 0..(Len(text) - 1), e \in 1..Len(text), l \in AnonLabels}

NonOverlapping(ents) ==
  /\ \A k \in 1..Len(ents) : ents[k].start_char < ents[k].end_char
  /\ \A j, k \in 1..Len(ents) :
        j # k => \/ ents[j].end_char <= ents[k].start_char
                 \/ ents[k].end_char <= ents[j].start_char

EntityLists(text) ==
  {ents \in SeqsUpTo(SpansOf(text), MaxSpans) : NonOverlapping(ents)}

InitAnon ==
  /\ pc = "anon_call"
  /\ output_file = Absent
  /\ hash_file = Absent
  /\ start_output_file = Absent
  /\ start_hash_file = Absent
  /\ MainIdle
  /\ max_retries = DefaultMaxRetries
  /\ GenIdle
  /\ text_in \in AnonTexts
  /\ ents_in \in EntityLists(text_in)
  /\ turns_out = <<>>
  /\ reparsed = <<>>
  /\ text_out = <<>>
  /\ HistIdle

AnonStep ==
  /\ pc = "anon_call"
  /\ text_out' = anonymize_text(text_in, ents_in)
  /\ pc' = "anon_done"
  /\ UNCHANGED <<text_in, ents_in, turns_out, reparsed>>
  /\ UNCHANGED <<mainVars, genVars, histVars>>

NextAnon == AnonStep

SpecAnon == InitAnon /\ [][NextAnon]_vars

\* The recognised spans, and the text with all of them replaced at once:
\* the character at offset c gives the placeholder when a recognised span
\* starts at c, nothing when c is further inside one, itself otherwise.
Recognised(ents) ==
  {ents[k] : k \in {j \in 1..Len(ents) : ents[j].label_ \in ReplacementLabels}}

SimultaneousPiece(text, ents, c) ==
  IF \E ent \in Recognised(ents) : ent.start_char = c
  THEN LET ent == CHOOSE x \in Recognised(ents) : x.start_char = c
       IN <<"<">> \o replacements(ent.label_) \o <<">">>
  ELSE IF \E ent \in Recognised(ents) : ent.start_char < c /\ c < ent.end_char
  THEN <<>>
  ELSE <<text[c + 1]>>

SimultaneousReplacement(text, ents) ==
  Concat([i \in 1..Len(text) |-> SimultaneousPiece(text, ents, i - 1)])

\* C11: for non-overlapping spans, anonymize_text returns the text in which
\* every span of a category of the replacement table is replaced by its
\* placeholder, all at once, and every other character, those of spans of
\* other categories included, is kept in place; with no recognised span the
\* result is the input.
C11_AnonymizeSimultaneous ==
  pc = "anon_done" =>
     /\ text_out = SimultaneousReplacement(text_in, ents_in)
     /\ Recognised(ents_in) = {} => text_out = text_in

C11_Witness ==
  /\ pc = "anon_done"
  /\ Len(ents_in) = 2
  /\ ents_in[1].start_char < ents_in[2].start_char
  /\ ents_in[1].label_ = "GPE"
  /\ ents_in[2].label_ = "MONEY"
  /\ Len(text_out) > Len(text_in)

\* What a failed validation does to the call: one attempt is consumed; with
\* attempts left, a backoff and a further attempt; on the last attempt, the
\* failure value.
ConsumesAttemptAndRetries ==
  /\ api_calls' = api_calls + 1
  /\ IF attempt < max_retries
     THEN /\ sleeps' = Append(sleeps, Pow2(attempt))
          /\ attempt' = attempt + 1
          /\ pc' = "gen_attempt"
     ELSE /\ sleeps' = sleeps
          /\ generated_dialogue' = None
          /\ pc' = "gen_return"

\* C12 as stated: every error raised on an attempt, whatever its class, is
\* treated as a failed validation is.
C12_EveryErrorRetried ==
  [][(/\ pc = "gen_attempt"
      /\ attempt_outcome' \in {"openai_error", "other_exception"})
     => ConsumesAttemptAndRetries]_vars

\* C12: an OpenAIError raised on an attempt is treated as a failed
\* validation is: it consumes one attempt, is followed by the same backoff
\* and a further attempt when attempts remain, and gives the failure value
\* on the last attempt only; any other exception ends the call at once with
\* the failure value, without backoff or further attempt.
C12_OpenAIErrorRetried ==
  [][/\ (/\ pc = "gen_attempt"
         /\ attempt_outcome' \in {"openai_error", "no_valid_candidate"})
        => ConsumesAttemptAndRetries
     /\ (/\ pc = "gen_attempt"
         /\ attempt_outcome' = "other_exception")
        => /\ api_calls' = api_calls + 1
           /\ sleeps' = sleeps
           /\ generated_dialogue' = None
           /\ pc' = "gen_return"]_vars

C12_Witness ==
  /\ pc = "gen_attempt"
  /\ attempt_outcome = "openai_error"
  /\ attempt = 3
  /\ api_calls = 2
  /\ sleeps = <<2, 4>>

StartIds == LoadExistingDialogues(start_output_file).existing_ids

\* C13: at every point of the loop, the fingerprints that existing_hashes
\* holds beyond those loaded at startup are exactly the fingerprints of the
\* base_conversation of the records of new_dialogues, and the identifiers
\* that existing_ids holds beyond those loaded at startup are exactly the
\* dialogue_id of those records.
C13_StoreMatchesAccepted ==
  (pc # "start" /\ dataset_loaded) =>
     /\ loaded_hashes \subseteq existing_hashes
     /\ existing_hashes \ loaded_hashes =
          {Sha256(new_dialogues[k].base_conversation) : k \in 1..Len(new_dialogues)}
     /\ StartIds \subseteq existing_ids
     /\ existing_ids \ StartIds =
          {new_dialogues[k].dialogue_id : k \in 1..Len(new_dialogues)}

C13_Witness ==
  /\ pc = "loop"
  /\ Len(new_dialogues) = 1
  /\ HasOutcome("skipped-duplicate-generated")
  /\ loaded_hashes # {}
  /\ StartIds # {}

\* C14: an item whose anonymized source transcript has a fingerprint already
\* in existing_hashes is skipped at once: generate_dialogue is not called for
\* it, and new_dialogues, existing_ids and existing_hashes are unchanged.
C14_DuplicateSourceSkipped ==
  [][(/\ pc = "loop"
      /\ pos <= Len(selected_indices)
      /\ Sha256(SourceConversation(selected_indices[pos])) \in existing_hashes)
     => /\ pc' = "loop"
        /\ pos' = pos + 1
        /\ outcomes' = Append(outcomes,
             [index |-> selected_indices[pos],
              state |-> "skipped-duplicate-source"])
        /\ UNCHANGED <<new_dialogues, existing_ids, existing_hashes>>
        /\ UNCHANGED <<api_calls, attempt, attempt_outcome>>]_vars

C14_Witness ==
  /\ HasOutcome("skipped-duplicate-source")
  /\ HasOutcome("accepted")

C16_BothWritesAttemptedOnce ==
  /\ writes # <<>> => pc = "done"
  /\ pc = "done" =>
       /\ Len(writes) = 2
       /\ writes[1].file = "output"
       /\ writes[2].file = "hashes"
       /\ writes[2].ok => hash_file = JsonFile(existing_hashes)
       /\ writes[1].ok =>
            output_file = JsonFile(existing_dialogues \o new_dialogues)

C16_Witness ==
  /\ pc = "done"
  /\ Len(writes) = 2
  /\ ~writes[1].ok
  /\ writes[2].ok
  /\ hash_file = JsonFile(existing_hashes)
  /\ new_dialogues # <<>>

\* The fingerprints of the records the first run accepted.
PrevFingerprints ==
  {Sha256(prev_run[1].accepted[k].base_conversation) :
     k \in 1..Len(prev_run[1].accepted)}

\* C17: of two consecutive runs, the first ending with both writes
\* successful, the cache the first run wrote holds every fingerprint the
\* store held at its start and the fingerprint of every record it accepted;
\* the second run loads them, and an item of the second run whose generated
\* transcript equals one accepted in the first run is skipped as a duplicate.
C17_SecondRunSkipsFirstRunDuplicates ==
  /\ [](second_run =>
          /\ start_hash_file = JsonFile(prev_run[1].final_hashes)
          /\ start_hash_file.content =
               prev_run[1].loaded \cup PrevFingerprints
          /\ pc \notin {"start", "exited"} =>
               (prev_run[1].loaded \cup PrevFingerprints) \subseteq
                 existing_hashes
          /\ \A k \in 1..Len(new_dialogues) :
               Sha256(new_dialogues[k].base_conversation) \notin
                 PrevFingerprints)
  /\ [][(/\ second_run
         /\ pc = "gen_return"
         /\ generated_dialogue # None
         /\ ReturnedFingerprint \in PrevFingerprints)
        => /\ new_dialogues' = new_dialogues
           /\ outcomes' = Append(outcomes,
                [index |-> selected_indices[pos],
                 state |-> "skipped-duplicate-generated"])]_vars

\* In the second run an item has been skipped whose transcript can only have
\* come from the first run's accepted records.
C17_Witness ==
  /\ second_run
  /\ prev_run[1].loaded = {}
  /\ prev_run[1].accepted # <<>>
  /\ new_dialogues = <<>>
  /\ Len(outcomes) = 1
  /\ outcomes[1].state = "skipped-duplicate-generated"

\* C18: after a run that completes and writes the primary output
\* successfully, the file is the records it held at startup, in their
\* original order, followed by the records accepted in the run in acceptance
\* order, for every startup content of the file.
C18_StartupRecordsPreserved ==
  (/\ pc = "done"
   /\ writes[1].ok
   /\ start_output_file.state = "json")
  => output_file = JsonFile(start_output_file.content \o new_dialogues)

WellFormedTurns(turns) ==
  /\ Len(turns) >= 1
  /\ \A k \in 1..Len(turns) : turns[k].speaker \in {USER, ASSISTANT}

\* C19: every record appended to new_dialogues has at least one turn, every
\* turn's speaker is USER or ASSISTANT, and its base_conversation is not
\* empty; the text generate_dialogue returns always parses to such a list.
C19_AcceptedRecordsHaveTurns ==
  /\ \A k \in 1..Len(new_dialogues) :
       /\ WellFormedTurns(new_dialogues[k].turns)
       /\ new_dialogues[k].base_conversation # <<>>
  /\ (pc = "gen_return" /\ generated_dialogue # None) =>
       WellFormedTurns(process_generated_dialogue(generated_dialogue[1]))

\* A record accepted from a candidate that had an unmarked line before its
\* marked one.
C19_Witness ==
  /\ pc = "done"
  /\ \E k \in 1..Len(new_dialogues) :
       /\ new_dialogues[k].base_conversation = CanonAssistantB
       /\ Len(new_dialogues[k].turns) = 1

\* C20: round trip of parser and formatter.  For every turn list t that
\* process_generated_dialogue produces, parsing the transcript that
\* generate_base_conversation makes of t gives t again; so different turn
\* lists have different transcripts.
C20_RoundTrip ==
  pc = "roundtrip_done" =>
     /\ reparsed = turns_out
     /\ turns_out # <<>> => generate_base_conversation(turns_out) # <<>>

\* Two turns, the first with an empty utterance, the second with a colon.
C20_Witness ==
  /\ pc = "roundtrip_done"
  /\ Len(turns_out) = 2
  /\ turns_out[1].utterance = <<>>
  /\ turns_out[2].utterance = <<":">>
  /\ reparsed = turns_out

====
